---------------------------- MODULE Spec2Model ----------------------------
(***************************************************************************)
(* Model of docs/conf.py of ComPWA/compwa-org: the Sphinx configuration    *)
(* script.  The script is executed top to bottom when Sphinx starts: it    *)
(* lists the technical reports, optionally installs IJulia through a       *)
(* julia subprocess, registers an intersphinx version remapping and then   *)
(* assigns the module-level configuration variables, one of which is the   *)
(* list computed by get_nb_exclusion_patterns().                           *)
(*                                                                         *)
(* Python strings that are compared with < are modelled as sequences of    *)
(* one-character strings, ordered by code point like Python's str.         *)
(***************************************************************************)
EXTENDS Naturals, Integers, Sequences, FiniteSets, TLC

VARIABLES
    juliaOnPath,    \* shutil.which("julia") is not None
    environ,        \* names present in os.environ (the three conf.py reads)
    hashSeed,       \* PYTHONHASHSEED of the process (set iteration order)
    commitSha,      \* what _get_commit_sha() returns in this checkout
    executionMode,  \* what get_execution_mode() returns
    pinned,         \* what pin()/pin_minor() return
    pc,             \* position of the module-level code
    stmt,           \* index of the next assignment statement
    reportsListed,  \* _list_technical_reports.main() has run
    spawned,        \* argv of every subprocess spawned so far
    child,          \* "none", "running" or "exited"
    exitStatus,     \* exit status of the child, -1 while there is none
    remapping,      \* what set_intersphinx_version_remapping was given
    namespace,      \* module globals assigned so far: name -> value
    writes,         \* name -> number of assignments executed
    calls           \* log of direct calls of get_nb_exclusion_patterns

vars == <<juliaOnPath, environ, hashSeed, commitSha, executionMode, pinned,
          pc, stmt, reportsListed, spawned, child, exitStatus, remapping,
          namespace, writes, calls>>

inputs == <<juliaOnPath, environ, hashSeed, commitSha, executionMode, pinned>>

\* The hash seeds explored are PYTHONHASHSEED = 0..MaxSeed; HashTable holds
\* the hashes for the seeds 0..4.
MaxSeed == 2

\* Number of direct calls of get_nb_exclusion_patterns kept in the log.
MaxCalls == 2

\* Largest exit status of the julia subprocess explored.
MaxExit == 2

EnvNames == {"READTHEDOCS", "EXECUTE_NB", "FORCE_EXECUTE_NB"}

-----------------------------------------------------------------------------
(* Python str: ordering by code point *)

\* ord(c) of the characters that occur in the patterns.
Ord(c) ==
    CASE c = "*" -> 42
      [] c = "/" -> 47
      [] c = "0" -> 48
      [] c = "1" -> 49
      [] c = "2" -> 50
      [] c = "3" -> 51
      [] c = "4" -> 52
      [] c = "5" -> 53
      [] c = "6" -> 54
      [] c = "7" -> 55
      [] c = "8" -> 56
      [] c = "9" -> 57
      [] c = "a" -> 97
      [] c = "d" -> 100
      [] c = "e" -> 101
      [] c = "o" -> 111
      [] c = "p" -> 112
      [] c = "r" -> 114
      [] c = "t" -> 116

\* a < b for Python str from position i on, the earlier characters being
\* equal: the first differing code point decides, a proper prefix is smaller.
RECURSIVE StrLessFrom(_, _, _)
StrLessFrom(a, b, i) ==
    IF i > Len(b) THEN FALSE
    ELSE IF i > Len(a) THEN TRUE
    ELSE IF a[i] # b[i] THEN Ord(a[i]) < Ord(b[i])
    ELSE StrLessFrom(a, b, i + 1)

StrLess(a, b) == StrLessFrom(a, b, 1)

-----------------------------------------------------------------------------
(* Python set of str, as CPython 3.11 implements it (Objects/setobject.c):  *)
(* an open-addressing hash table whose iteration order is the slot order.  *)
(* The slots depend on str.__hash__, which is keyed by the hash seed of    *)
(* the process (PYTHONHASHSEED).                                            *)

\* The patterns of get_nb_exclusion_patterns: adr/00n/* and report/abc*.
Adr(n) == <<"a", "d", "r", "/", "0", "0", n, "/", "*">>
Report(a, b, c) == <<"r", "e", "p", "o", "r", "t", "/", a, b, c, "*">>

EmptySlot == <<>>

PySet_MINSIZE == 8
LINEAR_PROBES == 9
PERTURB_SHIFT == 5

\* hash(s) under PYTHONHASHSEED = 0, 1, ... for the 21 patterns, as the
\* unsigned 64-bit number in base 2^PERTURB_SHIFT, least significant digit
\* first.
HashTable ==
   <<
      (    Adr("1") :> <<11, 27, 31, 14, 15, 7, 20, 21, 30, 15, 25, 13, 9>>
        @@ Adr("2") :> <<13, 28, 19, 30, 28, 26, 22, 19, 13, 10, 19, 14, 8>>
        @@ Report("0", "0", "0") :> <<6, 26, 0, 29, 23, 10, 6, 16, 15, 5, 28, 5, 15>>
        @@ Report("0", "0", "1") :> <<30, 5, 29, 19, 22, 21, 6, 24, 14, 1, 5, 24, 4>>
        @@ Report("0", "0", "2") :> <<26, 21, 17, 9, 27, 2, 21, 14, 27, 3, 14, 16, 2>>
        @@ Report("0", "0", "5") :> <<14, 8, 6, 8, 11, 27, 3, 4, 5, 9, 16, 25, 2>>
        @@ Report("0", "0", "8") :> <<20, 10, 13, 23, 15, 10, 29, 0, 14, 20, 16, 18, 0>>
        @@ Report("0", "0", "9") :> <<5, 14, 29, 3, 30, 1, 24, 11, 3, 25, 26, 18, 13>>
        @@ Report("0", "1", "0") :> <<19, 20, 15, 29, 28, 27, 20, 9, 23, 11, 10, 10, 11>>
        @@ Report("0", "1", "1") :> <<14, 2, 30, 28, 15, 30, 30, 9, 26, 31, 31, 1, 11>>
        @@ Report("0", "1", "2") :> <<8, 3, 17, 27, 10, 9, 14, 24, 21, 6, 19, 28, 9>>
        @@ Report("0", "1", "3") :> <<19, 8, 29, 28, 24, 30, 24, 29, 19, 28, 8, 16, 8>>
        @@ Report("0", "1", "4") :> <<13, 13, 4, 12, 12, 18, 18, 9, 14, 4, 4, 10, 6>>
        @@ Report("0", "1", "5") :> <<2, 12, 6, 6, 13, 29, 25, 24, 10, 22, 17, 14, 9>>
        @@ Report("0", "1", "7") :> <<31, 16, 11, 19, 23, 29, 7, 7, 19, 1, 18, 5, 3>>
        @@ Report("0", "1", "8") :> <<30, 18, 30, 2, 15, 7, 9, 3, 24, 31, 18, 21, 12>>
        @@ Report("0", "1", "9") :> <<15, 15, 20, 5, 9, 20, 25, 14, 14, 30, 3, 10, 8>>
        @@ Report("0", "2", "0") :> <<16, 11, 4, 13, 25, 1, 8, 1, 8, 7, 31, 26, 1>>
        @@ Report("0", "2", "1") :> <<29, 21, 6, 13, 15, 8, 19, 22, 31, 1, 14, 27, 13>>
        @@ Report("0", "2", "2") :> <<31, 28, 23, 20, 15, 5, 4, 17, 7, 27, 17, 27, 0>>
        @@ Report("0", "3", "3") :> <<4, 15, 26, 21, 22, 0, 11, 28, 29, 26, 28, 6, 13>> ),
      (    Adr("1") :> <<6, 11, 30, 24, 25, 7, 17, 16, 13, 6, 9, 20, 6>>
        @@ Adr("2") :> <<18, 1, 22, 16, 5, 19, 11, 25, 24, 17, 14, 20, 14>>
        @@ Report("0", "0", "0") :> <<1, 9, 11, 27, 13, 5, 20, 3, 9, 24, 21, 29, 0>>
        @@ Report("0", "0", "1") :> <<30, 21, 17, 18, 27, 13, 28, 21, 22, 26, 1, 17, 9>>
        @@ Report("0", "0", "2") :> <<20, 4, 8, 25, 13, 0, 7, 1, 14, 28, 1, 24, 15>>
        @@ Report("0", "0", "5") :> <<15, 1, 17, 26, 26, 13, 18, 25, 15, 23, 27, 14, 7>>
        @@ Report("0", "0", "8") :> <<3, 14, 3, 11, 15, 31, 2, 17, 4, 16, 29, 31, 7>>
        @@ Report("0", "0", "9") :> <<5, 15, 24, 20, 20, 6, 29, 5, 29, 3, 3, 7, 10>>
        @@ Report("0", "1", "0") :> <<23, 10, 15, 5, 5, 30, 17, 16, 12, 29, 10, 21, 7>>
        @@ Report("0", "1", "1") :> <<23, 23, 22, 4, 1, 26, 17, 27, 30, 21, 23, 16, 9>>
        @@ Report("0", "1", "2") :> <<6, 6, 4, 31, 23, 21, 20, 9, 25, 27, 28, 13, 9>>
        @@ Report("0", "1", "3") :> <<7, 23, 30, 25, 17, 10, 5, 29, 22, 28, 18, 6, 6>>
        @@ Report("0", "1", "4") :> <<10, 1, 15, 6, 14, 29, 12, 8, 2, 18, 25, 3, 14>>
        @@ Report("0", "1", "5") :> <<27, 16, 18, 28, 9, 14, 23, 17, 22, 7, 24, 0, 12>>
        @@ Report("0", "1", "7") :> <<0, 19, 5, 11, 0, 10, 19, 26, 8, 9, 13, 2, 2>>
        @@ Report("0", "1", "8") :> <<7, 15, 14, 8, 31, 12, 6, 23, 4, 15, 28, 0, 1>>
        @@ Report("0", "1", "9") :> <<5, 28, 3, 0, 29, 16, 20, 14, 4, 11, 17, 8, 5>>
        @@ Report("0", "2", "0") :> <<0, 29, 2, 9, 19, 26, 30, 20, 21, 31, 16, 3, 8>>
        @@ Report("0", "2", "1") :> <<23, 27, 1, 5, 25, 18, 31, 14, 21, 28, 20, 24, 10>>
        @@ Report("0", "2", "2") :> <<1, 8, 14, 6, 13, 2, 22, 8, 8, 11, 8, 28, 3>>
        @@ Report("0", "3", "3") :> <<13, 17, 6, 1, 10, 26, 23, 9, 26, 31, 12, 17, 3>> ),
      (    Adr("1") :> <<19, 18, 9, 8, 3, 8, 18, 30, 4, 12, 31, 0, 3>>
        @@ Adr("2") :> <<3, 10, 1, 11, 28, 3, 12, 21, 14, 3, 8, 7, 12>>
        @@ Report("0", "0", "0") :> <<0, 9, 7, 8, 23, 13, 30, 3, 4, 26, 28, 23, 3>>
        @@ Report("0", "0", "1") :> <<16, 24, 30, 3, 4, 5, 17, 11, 8, 17, 25, 15, 8>>
        @@ Report("0", "0", "2") :> <<22, 6, 6, 9, 5, 22, 7, 27, 8, 13, 15, 30, 10>>
        @@ Report("0", "0", "5") :> <<25, 20, 28, 0, 11, 6, 21, 22, 8, 4, 18, 19, 1>>
        @@ Report("0", "0", "8") :> <<0, 16, 20, 29, 13, 4, 30, 22, 4, 17, 8, 25, 12>>
        @@ Report("0", "0", "9") :> <<24, 15, 4, 9, 23, 9, 2, 18, 10, 23, 10, 11, 12>>
        @@ Report("0", "1", "0") :> <<25, 2, 17, 7, 18, 7, 1, 27, 21, 9, 18, 25, 11>>
        @@ Report("0", "1", "1") :> <<24, 28, 3, 15, 1, 25, 5, 11, 6, 6, 28, 6, 11>>
        @@ Report("0", "1", "2") :> <<0, 17, 15, 9, 25, 23, 23, 19, 29, 1, 15, 0, 14>>
        @@ Report("0", "1", "3") :> <<15, 9, 7, 18, 27, 14, 7, 25, 22, 1, 30, 13, 8>>
        @@ Report("0", "1", "4") :> <<20, 9, 25, 9, 16, 20, 11, 0, 7, 8, 16, 17, 12>>
        @@ Report("0", "1", "5") :> <<10, 17, 19, 12, 27, 16, 5, 6, 5, 11, 4, 26, 4>>
        @@ Report("0", "1", "7") :> <<31, 14, 10, 0, 28, 6, 4, 0, 9, 2, 17, 20, 4>>
        @@ Report("0", "1", "8") :> <<1, 31, 20, 13, 15, 10, 29, 10, 30, 24, 30, 26, 1>>
        @@ Report("0", "1", "9") :> <<14, 21, 27, 26, 3, 13, 19, 22, 20, 8, 27, 23, 12>>
        @@ Report("0", "2", "0") :> <<10, 4, 1, 4, 21, 2, 26, 1, 15, 7, 31, 18, 4>>
        @@ Report("0", "2", "1") :> <<27, 28, 0, 23, 8, 18, 10, 27, 26, 7, 28, 5, 8>>
        @@ Report("0", "2", "2") :> <<5, 5, 24, 28, 29, 14, 14, 29, 23, 26, 1, 17, 11>>
        @@ Report("0", "3", "3") :> <<30, 6, 28, 22, 12, 7, 14, 11, 25, 27, 10, 12, 4>> ),
      (    Adr("1") :> <<22, 31, 5, 10, 21, 30, 12, 0, 22, 29, 3, 12, 14>>
        @@ Adr("2") :> <<27, 20, 11, 14, 2, 25, 18, 11, 25, 1, 24, 9, 7>>
        @@ Report("0", "0", "0") :> <<26, 4, 3, 26, 14, 21, 12, 2, 11, 0, 10, 25, 4>>
        @@ Report("0", "0", "1") :> <<28, 20, 2, 3, 31, 19, 22, 22, 19, 15, 24, 5, 3>>
        @@ Report("0", "0", "2") :> <<15, 2, 30, 22, 13, 5, 28, 6, 25, 9, 26, 15, 9>>
        @@ Report("0", "0", "5") :> <<14, 1, 14, 13, 31, 22, 18, 2, 23, 29, 18, 2, 8>>
        @@ Report("0", "0", "8") :> <<29, 3, 20, 2, 29, 24, 28, 21, 31, 14, 16, 29, 3>>
        @@ Report("0", "0", "9") :> <<22, 1, 18, 12, 27, 17, 2, 15, 6, 16, 1, 29, 14>>
        @@ Report("0", "1", "0") :> <<29, 3, 28, 30, 9, 5, 26, 6, 23, 13, 28, 4, 2>>
        @@ Report("0", "1", "1") :> <<14, 11, 25, 31, 28, 12, 3, 31, 28, 14, 19, 17, 1>>
        @@ Report("0", "1", "2") :> <<28, 0, 31, 16, 5, 9, 29, 30, 12, 15, 1, 17, 15>>
        @@ Report("0", "1", "3") :> <<8, 24, 6, 26, 26, 27, 24, 9, 17, 23, 1, 8, 7>>
        @@ Report("0", "1", "4") :> <<23, 11, 3, 23, 18, 31, 21, 21, 29, 26, 13, 31, 8>>
        @@ Report("0", "1", "5") :> <<13, 2, 11, 18, 15, 19, 5, 29, 9, 26, 27, 28, 9>>
        @@ Report("0", "1", "7") :> <<3, 8, 3, 2, 15, 14, 19, 10, 11, 0, 1, 28, 3>>
        @@ Report("0", "1", "8") :> <<19, 23, 24, 20, 22, 28, 0, 31, 27, 15, 1, 27, 7>>
        @@ Report("0", "1", "9") :> <<6, 13, 29, 11, 29, 6, 12, 11, 24, 6, 3, 31, 0>>
        @@ Report("0", "2", "0") :> <<7, 15, 0, 24, 24, 29, 6, 9, 30, 25, 21, 13, 12>>
        @@ Report("0", "2", "1") :> <<5, 14, 12, 30, 28, 31, 24, 6, 14, 21, 8, 25, 8>>
        @@ Report("0", "2", "2") :> <<5, 22, 9, 14, 23, 19, 23, 22, 5, 24, 0, 26, 1>>
        @@ Report("0", "3", "3") :> <<15, 0, 6, 0, 1, 15, 5, 26, 24, 25, 23, 11, 11>> ),
      (    Adr("1") :> <<20, 25, 11, 25, 17, 15, 11, 0, 24, 6, 19, 25, 11>>
        @@ Adr("2") :> <<2, 12, 0, 13, 5, 12, 26, 30, 14, 1, 13, 23, 4>>
        @@ Report("0", "0", "0") :> <<21, 26, 29, 15, 2, 28, 24, 11, 23, 19, 8, 9, 8>>
        @@ Report("0", "0", "1") :> <<13, 0, 7, 22, 9, 2, 15, 19, 2, 24, 14, 26, 12>>
        @@ Report("0", "0", "2") :> <<28, 10, 18, 15, 10, 11, 26, 27, 17, 19, 24, 15, 11>>
        @@ Report("0", "0", "5") :> <<31, 12, 20, 26, 28, 0, 30, 30, 2, 7, 22, 29, 13>>
        @@ Report("0", "0", "8") :> <<30, 13, 28, 16, 30, 20, 4, 16, 27, 31, 1, 27, 9>>
        @@ Report("0", "0", "9") :> <<7, 25, 21, 21, 11, 2, 20, 1, 6, 15, 18, 30, 6>>
        @@ Report("0", "1", "0") :> <<30, 16, 23, 20, 9, 4, 13, 2, 1, 3, 19, 22, 0>>
        @@ Report("0", "1", "1") :> <<20, 31, 21, 12, 30, 4, 20, 15, 27, 9, 22, 10, 6>>
        @@ Report("0", "1", "2") :> <<17, 18, 9, 28, 26, 18, 4, 23, 26, 16, 15, 17, 10>>
        @@ Report("0", "1", "3") :> <<7, 23, 19, 27, 3, 9, 5, 17, 6, 29, 1, 8, 11>>
        @@ Report("0", "1", "4") :> <<10, 5, 23, 9, 26, 25, 9, 4, 9, 31, 10, 30, 4>>
        @@ Report("0", "1", "5") :> <<19, 9, 17, 18, 10, 22, 17, 13, 18, 15, 26, 27, 2>>
        @@ Report("0", "1", "7") :> <<12, 25, 27, 9, 8, 8, 3, 4, 20, 1, 31, 16, 11>>
        @@ Report("0", "1", "8") :> <<28, 27, 30, 16, 2, 22, 15, 22, 9, 31, 29, 24, 8>>
        @@ Report("0", "1", "9") :> <<20, 31, 5, 12, 23, 21, 25, 1, 17, 18, 17, 13, 11>>
        @@ Report("0", "2", "0") :> <<12, 6, 9, 12, 7, 18, 12, 3, 9, 1, 10, 23, 12>>
        @@ Report("0", "2", "1") :> <<22, 1, 8, 23, 31, 15, 1, 26, 19, 18, 17, 3, 1>>
        @@ Report("0", "2", "2") :> <<25, 9, 3, 31, 12, 0, 16, 10, 16, 21, 14, 22, 8>>
        @@ Report("0", "3", "3") :> <<2, 7, 9, 14, 2, 21, 27, 19, 14, 8, 20, 14, 15>> )
   >>

StrHash(s, seed) == HashTable[seed + 1][s]

\* (hash >> (PERTURB_SHIFT * n)) & mask, for a mask below 2^10.
Perturb(h, n, mask) ==
    LET digit(k) == IF k <= Len(h) THEN h[k] ELSE 0
    IN  (digit(n + 1) + 32 * digit(n + 2)) % (mask + 1)

\* A set with an empty table of the given size.
NewTable(size) ==
    [ mask |-> size - 1, fill |-> 0, table |-> [i \in 0..(size - 1) |-> EmptySlot] ]

\* The probe sequence of set_add_entry and set_insert_clean: the slot i and
\* the LINEAR_PROBES slots after it when they all lie in the table, then the
\* next i from the perturbed recurrence.  The result is the first slot that
\* is unused or holds x.
RECURSIVE FindSlot(_, _, _, _, _, _)
FindSlot(so, x, h, i, n, j) ==
    LET probes == IF i + LINEAR_PROBES <= so.mask THEN LINEAR_PROBES ELSE 0
    IN  IF so.table[i + j] = EmptySlot \/ so.table[i + j] = x THEN i + j
        ELSE IF j < probes THEN FindSlot(so, x, h, i, n, j + 1)
        ELSE FindSlot(so, x, h,
                      (i * 5 + 1 + Perturb(h, n + 1, so.mask)) % (so.mask + 1),
                      n + 1, 0)

SlotFor(so, x, seed) ==
    LET h == StrHash(x, seed)
    IN  FindSlot(so, x, h, Perturb(h, 0, so.mask), 0, 0)

\* set_insert_clean: x is not in the table and the table has room.
set_insert_clean(so, x, seed) ==
    [so EXCEPT !.table[SlotFor(so, x, seed)] = x, !.fill = @ + 1]

\* Iteration over a set: the keys of the used slots, in slot order.
SetIter(so) ==
    LET Used(key) == key # EmptySlot
    IN  SelectSeq([i \in 1..(so.mask + 1) |-> so.table[i - 1]], Used)

RECURSIVE InsertAllClean(_, _, _)
InsertAllClean(so, keys, seed) ==
    IF keys = <<>> THEN so
    ELSE InsertAllClean(set_insert_clean(so, Head(keys), seed), Tail(keys), seed)

\* The smallest power of two from size on that is greater than minused.
RECURSIVE TableSizeFor(_, _)
TableSizeFor(size, minused) ==
    IF size <= minused THEN TableSizeFor(size * 2, minused) ELSE size

\* set_table_resize: a new table, the keys re-inserted in slot order.
set_table_resize(so, minused, seed) ==
    InsertAllClean(NewTable(TableSizeFor(PySet_MINSIZE, minused)),
                   SetIter(so), seed)

\* set_add_entry: no effect when x is a member; the table is resized once
\* it is three fifths full.
set_add_entry(so, x, seed) ==
    LET slot == SlotFor(so, x, seed)
        added == [so EXCEPT !.table[slot] = x, !.fill = @ + 1]
    IN  IF so.table[slot] = x THEN so
        ELSE IF added.fill * 5 < added.mask * 3 THEN added
        ELSE set_table_resize(added, added.fill * 4, seed)

\* The keys added one by one, in the order given.
RECURSIVE SetAddAll(_, _, _)
SetAddAll(so, keys, seed) ==
    IF keys = <<>> THEN so
    ELSE SetAddAll(set_add_entry(so, Head(keys), seed), Tail(keys), seed)

\* set_merge(so, other): set.update(other) for a set other, and SET_UPDATE.
set_merge(so, other, seed) ==
    IF other.fill = 0 THEN so
    ELSE LET room == IF (so.fill + other.fill) * 5 >= so.mask * 3
                     THEN set_table_resize(so, (so.fill + other.fill) * 2, seed)
                     ELSE so
         IN  IF room.fill = 0 /\ room.mask = other.mask THEN other
             ELSE IF room.fill = 0
                  THEN InsertAllClean(room, SetIter(other), seed)
             ELSE SetAddAll(room, SetIter(other), seed)

\* PyFrozenSet_New(iterable)
FrozenSet(keys, seed) == SetAddAll(NewTable(PySet_MINSIZE), keys, seed)

\* A set display {e1, e2, ...} of constants.  With more than two elements
\* the compiler folds them into a frozenset constant, rebuilt once more from
\* its own iteration order when constants are merged, and the code is
\* BUILD_SET 0, LOAD_CONST, SET_UPDATE; otherwise it is BUILD_SET n.
SetDisplay(elems, seed) ==
    IF Len(elems) > 2
    THEN set_merge(NewTable(PySet_MINSIZE),
                   FrozenSet(SetIter(FrozenSet(elems, seed)), seed), seed)
    ELSE SetAddAll(NewTable(PySet_MINSIZE), elems, seed)

Range(s) == {s[i] : i \in 1..Len(s)}

-----------------------------------------------------------------------------
(* sorted() *)

\* Insert x into the ascending list s after every element not greater.
RECURSIVE InsertSorted(_, _)
InsertSorted(s, x) ==
    IF s = <<>> THEN <<x>>
    ELSE IF StrLess(x, Head(s)) THEN <<x>> \o s
    ELSE <<Head(s)>> \o InsertSorted(Tail(s), x)

RECURSIVE SortInto(_, _)
SortInto(acc, rest) ==
    IF rest = <<>> THEN acc
    ELSE SortInto(InsertSorted(acc, Head(rest)), Tail(rest))

\* Mutant: list() in place of sorted().
Unsorted(list) == list

\* sorted(iterable) of str: a new ascending list, stable.
Sorted(list) == SortInto(<<>>, list)

-----------------------------------------------------------------------------
(* get_nb_exclusion_patterns *)

\* The display assigned to exclusions, in source order.
BaseExclusions ==
    << Adr("1"), Adr("2"),
       Report("0", "0", "0"), Report("0", "0", "1"), Report("0", "0", "2"),
       Report("0", "0", "5"), Report("0", "0", "8"), Report("0", "0", "9"),
       Report("0", "1", "0"), Report("0", "1", "1"), Report("0", "1", "2"),
       Report("0", "1", "3"), Report("0", "1", "4"), Report("0", "1", "5"),
       Report("0", "1", "7"), Report("0", "1", "8"), Report("0", "2", "0"),
       Report("0", "2", "1"), Report("0", "2", "2"), Report("0", "3", "3") >>

\* The display assigned to julia_notebooks.
JuliaNotebooks == << Report("0", "1", "9") >>

\* Mutant: only the hosted-build marker is tested.
ExcludeJuliaHostedOnly(julia, env) == "READTHEDOCS" \in env

\* Mutant: only the interpreter is tested.
ExcludeJuliaMissingOnly(julia, env) == ~julia

\* Mutant: the notebooks are kept whenever execution is requested.
ExcludeJuliaUnlessExecuting(julia, env) ==
    (~julia \/ "READTHEDOCS" \in env) /\ "EXECUTE_NB" \notin env

\* The condition of the if statement.
ExcludeJulia(julia, env) == ~julia \/ "READTHEDOCS" \in env

\* The set exclusions as it is when the return statement is reached.
Exclusions(julia, env, seed) ==
    LET exclusions == SetDisplay(BaseExclusions, seed)
        julia_notebooks == SetDisplay(JuliaNotebooks, seed)
    IN  IF ExcludeJulia(julia, env)
        THEN set_merge(exclusions, julia_notebooks, seed)
        ELSE exclusions

get_nb_exclusion_patterns(julia, env, seed) ==
    Sorted(SetIter(Exclusions(julia, env, seed)))

\* One call of get_nb_exclusion_patterns(): the inputs, the order in which
\* sorted() iterated the set, and the list returned.
CallRecord(julia, env, seed) ==
    [ julia |-> julia,
      env |-> env,
      seed |-> seed,
      iterated |-> SetIter(Exclusions(julia, env, seed)),
      result |-> get_nb_exclusion_patterns(julia, env, seed) ]

\* Every call that can be made, one per input (each is evaluated once).
CallRecords ==
    { CallRecord(julia, env, seed) :
          julia \in BOOLEAN, env \in SUBSET EnvNames, seed \in 0..MaxSeed }

-----------------------------------------------------------------------------
(* install_ijulia *)

\* Mutant: the early return is missing.
JuliaNeverMissing(julia) == FALSE

\* The first if statement: no julia on the search path, return at once.
JuliaMissing(julia) == ~julia

\* Mutant: and in place of or.
BothRequested(env) == "EXECUTE_NB" \in env /\ "FORCE_EXECUTE_NB" \in env

\* Mutant: the environment is not consulted.
AlwaysRequested(env) == TRUE

\* The condition of the second if statement.
ExecutionRequested(env) == "EXECUTE_NB" \in env \/ "FORCE_EXECUTE_NB" \in env

\* Whether install_ijulia reaches subprocess.check_call.
InstallRuns(julia, env) == ~JuliaMissing(julia) /\ ExecutionRequested(env)

\* The argument list given to subprocess.check_call.
InstallCommand == <<"julia", "InstallIJulia.jl">>

-----------------------------------------------------------------------------
(* Results of the imported helpers, which are not part of conf.py *)

None == [type |-> "NoneType"]

CommitShas == {"04e5199", "e3f1a6c"}

ExecutionModes == {"off", "cache", "force"}

PinnedPackages ==
    {"attrs", "IPython", "ipywidgets", "matplotlib", "mpl-interactions", "numpy"}

PinnedChoices ==
    { [p \in PinnedPackages |-> "stable"],
      [p \in PinnedPackages |->
          CASE p = "attrs" -> "23.2.0"
            [] p = "IPython" -> "8.12.1"
            [] p = "ipywidgets" -> "8.0.5"
            [] p = "matplotlib" -> "3.5.0"
            [] p = "mpl-interactions" -> "0.24.0"
            [] p = "numpy" -> "1.26"] }

_get_commit_sha == commitSha
get_execution_mode == executionMode
pin(pkg) == pinned[pkg]
pin_minor(pkg) == pinned[pkg]

\* The argument of set_intersphinx_version_remapping.
VersionRemapping ==
    ("ipython" :> ("8.12.2" :> "8.12.1" @@ "8.12.3" :> "8.12.1"))
    @@ ("ipywidgets" :> ("8.0.3" :> "8.0.5" @@ "8.0.4" :> "8.0.5"
                         @@ "8.0.6" :> "8.0.5" @@ "8.1.1" :> "8.1.2"))
    @@ ("matplotlib" :> ("3.5.1" :> "3.5.0"))
    @@ ("mpl-interactions" :> ("0.24.1" :> "0.24.0"))

-----------------------------------------------------------------------------
(* The module-level assignments, lines 81 to 288 *)

\* The assigned names, in source order.
Statements ==
    << "BRANCH", "ORGANIZATION", "REPO_NAME", "REPO_TITLE", "BINDER_LINK",
       "autosectionlabel_prefix_document", "bibtex_bibfiles",
       "bibtex_reference_style", "codeautolink_concat_default",
       "codeautolink_global_preface", "comments_config",
       "copybutton_prompt_is_regexp", "copybutton_prompt_text", "copyright",
       "default_role", "exclude_patterns", "extensions",
       "graphviz_output_format", "html_css_files", "html_favicon",
       "html_js_files", "html_last_updated_fmt", "html_logo",
       "html_show_copyright", "html_static_path", "html_theme",
       "html_theme_options", "html_title", "intersphinx_mapping",
       "linkcheck_anchors", "linkcheck_ignore", "myst_enable_extensions",
       "myst_heading_anchors", "myst_substitutions", "myst_update_mathjax",
       "nb_execution_excludepatterns", "nb_execution_mode",
       "nb_execution_show_tb", "nb_execution_timeout", "nb_output_stderr",
       "nitpicky", "primary_domain", "project", "remove_from_toctrees",
       "source_suffix", "suppress_warnings", "thebe_config",
       "todo_include_todos" >>

Names == Range(Statements)

HtmlThemeOptions(ns) ==
    [ icon_links |->
        << [ name |-> "GitHub",
             url |-> "https://github.com/" \o ns["ORGANIZATION"],
             icon |-> "fa-brands fa-github" ],
           [ name |-> "Zenodo",
             url |-> "https://doi.org/10.5281/zenodo.6908149",
             icon |-> "https://zenodo.org/badge/DOI/10.5281/zenodo.6908149.svg",
             type |-> "url" ] >>,
      logo |-> [text |-> "The ComPWA project"],
      repository_url |->
          "https://github.com/" \o ns["ORGANIZATION"] \o "/" \o ns["REPO_NAME"],
      repository_branch |-> ns["BRANCH"],
      path_to_docs |-> "docs",
      use_download_button |-> FALSE,
      use_edit_page_button |-> TRUE,
      use_issues_button |-> TRUE,
      use_repository_button |-> TRUE,
      use_source_button |-> TRUE,
      launch_buttons |->
        [ binderhub_url |-> "https://mybinder.org",
          colab_url |-> "https://colab.research.google.com",
          deepnote_url |-> "https://deepnote.com",
          notebook_interface |-> "jupyterlab",
          thebe |-> TRUE ],
      show_toc_level |-> 2 ]

IntersphinxMapping ==
    "ampform-0.14.x" :> <<"https://ampform.readthedocs.io/0.14.x", None>>
    @@ "ampform" :> <<"https://ampform.readthedocs.io/stable", None>>
    @@ "attrs" :> <<"https://www.attrs.org/en/" \o pin("attrs"), None>>
    @@ "expertsystem" :> <<"https://expertsystem.readthedocs.io/stable", None>>
    @@ "graphviz" :> <<"https://graphviz.readthedocs.io/en/stable", None>>
    @@ "hepstats" :> <<"https://scikit-hep.org/hepstats", None>>
    @@ "IPython" :> <<"https://ipython.readthedocs.io/en/" \o pin("IPython"), None>>
    @@ "ipywidgets" :>
         <<"https://ipywidgets.readthedocs.io/en/" \o pin("ipywidgets"), None>>
    @@ "jax" :> <<"https://jax.readthedocs.io/en/latest", None>>
    @@ "matplotlib" :> <<"https://matplotlib.org/" \o pin("matplotlib"), None>>
    @@ "mpl_interactions" :>
         <<"https://mpl-interactions.readthedocs.io/en/"
               \o pin("mpl-interactions"), None>>
    @@ "numba" :> <<"https://numba.pydata.org/numba-doc/latest", None>>
    @@ "numpy" :> <<"https://numpy.org/doc/" \o pin_minor("numpy"), None>>
    @@ "pdg" :> <<"https://pdgapi.lbl.gov/doc", None>>
    @@ "plotly" :> <<"https://plotly.com/python-api-reference/", None>>
    @@ "pwa" :> <<"https://pwa.readthedocs.io", None>>
    @@ "python" :> <<"https://docs.python.org/3", None>>
    @@ "qrules-0.9.x" :> <<"https://qrules.readthedocs.io/0.9.x", None>>
    @@ "qrules" :> <<"https://qrules.readthedocs.io/stable", None>>
    @@ "scipy" :> <<"https://docs.scipy.org/doc/scipy-1.7.0", None>>
    @@ "sympy" :> <<"https://docs.sympy.org/latest", None>>
    @@ "tensorwaves" :> <<"https://tensorwaves.readthedocs.io/stable", None>>
    @@ "torch" :> <<"https://pytorch.org/docs/stable", None>>
    @@ "zfit" :> <<"https://zfit.readthedocs.io/en/latest", None>>

LinkcheckIgnore ==
    << "http://127.0.0.1:8000",
       "https://atom.io",
       "https://doi.org/10.1002/andp.19955070504",
       "https://doi.org/10.1155/2020/6674595",
       "https://doi.org/10.7566/JPSCP.26.022002",
       "https://downloads.hindawi.com",
       "https://github.com/organizations/ComPWA/settings/repository-defaults",
       "https://ieeexplore.ieee.org/document/6312940",
       "https://indico.ific.uv.es/event/6803",
       "https://journals.aps.org",
       "https://leetcode.com",
       "https://mybinder.org",
       "https://open.vscode.dev",
       "https://rosettacode.org",
       "https://stackoverflow.com",
       "https://via.placeholder.com",
       "https://www.andiamo.co.uk/resources/iso-language-codes",
       "https://www.bookfinder.com",
       "https://github.com/ComPWA/RUB-EP1-AG/.*",
       "https://github.com/orgs/ComPWA/projects/\\d+" >>

Extensions ==
    << "myst_nb", "sphinx.ext.autosectionlabel", "sphinx.ext.intersphinx",
       "sphinx.ext.mathjax", "sphinx.ext.napoleon", "sphinx.ext.todo",
       "sphinx_api_relink", "sphinx_codeautolink", "sphinx_comments",
       "sphinx_copybutton", "sphinx_design", "sphinx_hep_pdgref",
       "sphinx_pybtex_etal_style", "sphinx_remove_toctrees", "sphinx_thebe",
       "sphinx_togglebutton", "sphinxcontrib.bibtex" >>

\* A grave accent cannot occur in a string here: it is written \x60.
MystSubstitutions(ns) ==
    [ branch |-> ns["BRANCH"],
      remark_019 |->
          IF get_execution_mode # "off"
          THEN "Notice how a new file [\\x60019/Project.toml\\x60](./019/Project.toml) and "
               \o " [\\x60019/Manifest.toml\\x60](./019/Manifest.toml) are automatically generated."
          ELSE "",
      run_interactive |->
          "\n\\x60\\x60\\x60{margin}\nRun this notebook [on Binder](" \o ns["BINDER_LINK"]
          \o ") or\n{ref}\\x60locally on Jupyter Lab <develop:Jupyter Notebooks>\\x60"
          \o " to interactively\nmodify the parameters.\n\\x60\\x60\\x60\n" ]

\* Mutant: the repository is written out a second time.
ThebeConfigHardcoded(ns) ==
    [ repository_url |-> "https://github.com/ComPWA/compwa-org",
      repository_branch |-> "main" ]

\* thebe_config reads the two entries of html_theme_options.
ThebeConfig(ns) ==
    [ repository_url |-> ns["html_theme_options"].repository_url,
      repository_branch |-> ns["html_theme_options"].repository_branch ]

\* The call on the right-hand side of nb_execution_excludepatterns.
ExcludePatternsRhs ==
    LET call == CHOOSE c \in CallRecords :
                    c.julia = juliaOnPath /\ c.env = environ /\ c.seed = hashSeed
    IN  call.result

\* The value of the right-hand side of the assignment to name, evaluated in
\* the globals ns.  U+1F4DD in the utterances label is written as an escape.
Rhs(name, ns) ==
    CASE name = "BRANCH" -> _get_commit_sha
      [] name = "ORGANIZATION" -> "ComPWA"
      [] name = "REPO_NAME" -> "compwa.github.io"
      [] name = "REPO_TITLE" -> "ComPWA Organization"
      [] name = "BINDER_LINK" ->
            "https://mybinder.org/v2/gh/ComPWA/" \o ns["REPO_NAME"] \o "/"
            \o ns["BRANCH"] \o "?filepath=docs/usage"
      [] name = "autosectionlabel_prefix_document" -> TRUE
      [] name = "bibtex_bibfiles" -> <<"bibliography.bib">>
      [] name = "bibtex_reference_style" -> "author_year"
      [] name = "codeautolink_concat_default" -> TRUE
      [] name = "codeautolink_global_preface" ->
            "\nimport matplotlib.pyplot as plt\nimport numpy as np\n"
            \o "import sympy as sp\nfrom IPython.display import display\n"
      [] name = "comments_config" ->
            [ hypothesis |-> TRUE,
              utterances |->
                  ("repo" :> (ns["ORGANIZATION"] \o "/" \o ns["REPO_NAME"])
                   @@ "issue-term" :> "pathname"
                   @@ "label" :> "\\U0001F4DD Docs") ]
      [] name = "copybutton_prompt_is_regexp" -> TRUE
      [] name = "copybutton_prompt_text" -> ">>> |\\.\\.\\. "
      [] name = "copyright" -> "2020, " \o ns["ORGANIZATION"]
      [] name = "default_role" -> "py:obj"
      [] name = "exclude_patterns" ->
            << "**.ipynb_checkpoints", "*build", "*template.md",
               "adr/template.md", "tests" >>
      [] name = "extensions" -> Extensions
      [] name = "graphviz_output_format" -> "svg"
      [] name = "html_css_files" ->
            << "https://cdnjs.cloudflare.com/ajax/libs/font-awesome/6.1.1/css/all.min.css" >>
      [] name = "html_favicon" -> "_static/favicon.ico"
      [] name = "html_js_files" ->
            << "https://cdn.datatables.net/1.13.6/js/jquery.dataTables.min.js",
               "https://cdnjs.cloudflare.com/ajax/libs/require.js/2.3.4/require.min.js" >>
      [] name = "html_last_updated_fmt" -> "%-d %B %Y"
      [] name = "html_logo" ->
            "https://raw.githubusercontent.com/ComPWA/ComPWA/04e5199/doc/images/logo.svg"
      [] name = "html_show_copyright" -> FALSE
      [] name = "html_static_path" -> <<"_static">>
      [] name = "html_theme" -> "sphinx_book_theme"
      [] name = "html_theme_options" -> HtmlThemeOptions(ns)
      [] name = "html_title" -> "Common Partial Wave Analysis Project"
      [] name = "intersphinx_mapping" -> IntersphinxMapping
      [] name = "linkcheck_anchors" -> FALSE
      [] name = "linkcheck_ignore" -> LinkcheckIgnore
      [] name = "myst_enable_extensions" ->
            << "amsmath", "colon_fence", "dollarmath", "smartquotes",
               "substitution" >>
      [] name = "myst_heading_anchors" -> 4
      [] name = "myst_substitutions" -> MystSubstitutions(ns)
      [] name = "myst_update_mathjax" -> FALSE
      [] name = "nb_execution_excludepatterns" -> ExcludePatternsRhs
      [] name = "nb_execution_mode" -> get_execution_mode
      [] name = "nb_execution_show_tb" -> TRUE
      [] name = "nb_execution_timeout" -> -1
      [] name = "nb_output_stderr" -> "remove"
      [] name = "nitpicky" -> TRUE
      [] name = "primary_domain" -> "py"
      [] name = "project" -> ns["REPO_TITLE"]
      [] name = "remove_from_toctrees" -> <<"adr/*", "report/*">>
      [] name = "source_suffix" -> (".ipynb" :> "myst-nb" @@ ".md" :> "myst-nb")
      [] name = "suppress_warnings" ->
            <<"myst.domains", "mystnb.unknown_mime_type">>
      [] name = "thebe_config" -> ThebeConfig(ns)
      [] name = "todo_include_todos" -> TRUE

\* The globals after the assignment  name = <right-hand side>.
Bind(ns, name, value) ==
    [n \in DOMAIN ns \cup {name} |-> IF n = name THEN value ELSE ns[n]]

-----------------------------------------------------------------------------
(* The start-up sequence: conf.py executed from line 64 on *)

Inputs ==
    /\ juliaOnPath \in BOOLEAN
    /\ environ \in SUBSET EnvNames
    /\ hashSeed \in 0..MaxSeed
    /\ commitSha \in CommitShas
    /\ executionMode \in ExecutionModes
    /\ pinned \in PinnedChoices

Init ==
    /\ Inputs
    /\ pc = "list_reports"
    /\ stmt = 1
    /\ reportsListed = FALSE
    /\ spawned = <<>>
    /\ child = "none"
    /\ exitStatus = -1
    /\ remapping = None
    /\ namespace = <<>>
    /\ writes = [n \in Names |-> 0]
    /\ calls = {}

\* Line 64: _list_technical_reports.main()
ListTechnicalReports ==
    /\ pc = "list_reports"
    /\ reportsListed' = TRUE
    /\ pc' = "install_ijulia"
    /\ UNCHANGED <<inputs, stmt, spawned, child, exitStatus, remapping,
                   namespace, writes, calls>>

\* Line 65, install_ijulia() returning without a subprocess: julia is not on
\* the search path, or neither variable is set.
InstallSkipped ==
    /\ pc = "install_ijulia"
    /\ ~InstallRuns(juliaOnPath, environ)
    /\ pc' = "remap"
    /\ UNCHANGED <<inputs, stmt, reportsListed, spawned, child, exitStatus,
                   remapping, namespace, writes, calls>>

\* Mutant: subprocess.Popen, which does not wait for the child.
PopenStart ==
    /\ spawned' = Append(spawned, InstallCommand)
    /\ child' = "running"
    /\ pc' = "remap"

\* Line 61: subprocess.check_call starts the child and waits for it.
CheckCallStart ==
    /\ spawned' = Append(spawned, InstallCommand)
    /\ child' = "running"
    /\ pc' = "check_call"

\* Line 65, install_ijulia() reaching line 61.
InstallSpawn ==
    /\ pc = "install_ijulia"
    /\ InstallRuns(juliaOnPath, environ)
    /\ CheckCallStart
    /\ UNCHANGED <<inputs, stmt, reportsListed, exitStatus, remapping,
                   namespace, writes, calls>>

\* Mutant: subprocess.call, which returns the status instead of raising.
AfterExitIgnored(status) == "remap"

\* Where the module-level code is after check_call saw the child exit with
\* status: check_call returns on zero and raises CalledProcessError otherwise;
\* nothing in conf.py catches it.
AfterExit(status) == IF status = 0 THEN "remap" ELSE "failed"

\* The child exits; check_call, blocked on it, returns or raises.
ChildExit ==
    /\ pc = "check_call"
    /\ child = "running"
    /\ \E status \in 0..MaxExit :
          /\ exitStatus' = status
          /\ pc' = AfterExit(status)
    /\ child' = "exited"
    /\ UNCHANGED <<inputs, stmt, reportsListed, spawned, remapping,
                   namespace, writes, calls>>

\* Lines 66-79: set_intersphinx_version_remapping({...})
Remap ==
    /\ pc = "remap"
    /\ remapping' = VersionRemapping
    /\ pc' = "assign"
    /\ UNCHANGED <<inputs, stmt, reportsListed, spawned, child, exitStatus,
                   namespace, writes, calls>>

\* Lines 81-288: the next assignment statement.
Assign ==
    /\ pc = "assign"
    /\ LET name == Statements[stmt]
       IN  /\ namespace' = Bind(namespace, name, Rhs(name, namespace))
           /\ writes' = [writes EXCEPT ![name] = @ + 1]
    /\ stmt' = stmt + 1
    /\ pc' = IF stmt = Len(Statements) THEN "done" ELSE "assign"
    /\ UNCHANGED <<inputs, reportsListed, spawned, child, exitStatus,
                   remapping, calls>>

Startup ==
    \/ ListTechnicalReports
    \/ InstallSkipped
    \/ InstallSpawn
    \/ Remap
    \/ Assign

Next == Startup \/ ChildExit

Spec == Init /\ [][Next]_vars

\* The interpreter runs the module-level code to completion; nothing makes
\* the child exit.
FairSpec == Spec /\ WF_vars(Startup)

-----------------------------------------------------------------------------
(* Direct calls of get_nb_exclusion_patterns, each in a process of its own *)

InitCalls ==
    /\ juliaOnPath = FALSE
    /\ environ = {}
    /\ hashSeed = 0
    /\ commitSha = "04e5199"
    /\ executionMode = "off"
    /\ pinned = [p \in PinnedPackages |-> "stable"]
    /\ pc = "idle"
    /\ stmt = 1
    /\ reportsListed = FALSE
    /\ spawned = <<>>
    /\ child = "none"
    /\ exitStatus = -1
    /\ remapping = None
    /\ namespace = <<>>
    /\ writes = [n \in Names |-> 0]
    /\ calls = {}

\* A process with any search path, environment and hash seed calls
\* get_nb_exclusion_patterns().
Call ==
    /\ pc = "idle"
    /\ Cardinality(calls) < MaxCalls
    /\ \E call \in CallRecords : calls' = calls \cup {call}
    /\ UNCHANGED <<inputs, pc, stmt, reportsListed, spawned, child,
                   exitStatus, remapping, namespace, writes>>

NextCalls == Call

SpecCalls == InitCalls /\ [][NextCalls]_vars

-----------------------------------------------------------------------------
(* Properties of get_nb_exclusion_patterns, checked under SpecCalls *)

JuliaPattern == Report("0", "1", "9")

HostedBuild(env) == "READTHEDOCS" \in env

Contains(list, x) == \E i \in 1..Len(list) : list[i] = x

StrictlyAscending(list) ==
    \A i \in 1..(Len(list) - 1) : StrLess(list[i], list[i + 1])

SameInputs(c, d) ==
    c.julia = d.julia /\ HostedBuild(c.env) = HostedBuild(d.env)

\* The 20 base patterns in ascending order, and the 21 with report/019*.
Expected20 ==
    << Adr("1"), Adr("2"),
       Report("0", "0", "0"), Report("0", "0", "1"), Report("0", "0", "2"),
       Report("0", "0", "5"), Report("0", "0", "8"), Report("0", "0", "9"),
       Report("0", "1", "0"), Report("0", "1", "1"), Report("0", "1", "2"),
       Report("0", "1", "3"), Report("0", "1", "4"), Report("0", "1", "5"),
       Report("0", "1", "7"), Report("0", "1", "8"), Report("0", "2", "0"),
       Report("0", "2", "1"), Report("0", "2", "2"), Report("0", "3", "3") >>

Expected21 ==
    << Adr("1"), Adr("2"),
       Report("0", "0", "0"), Report("0", "0", "1"), Report("0", "0", "2"),
       Report("0", "0", "5"), Report("0", "0", "8"), Report("0", "0", "9"),
       Report("0", "1", "0"), Report("0", "1", "1"), Report("0", "1", "2"),
       Report("0", "1", "3"), Report("0", "1", "4"), Report("0", "1", "5"),
       Report("0", "1", "7"), Report("0", "1", "8"), Report("0", "1", "9"),
       Report("0", "2", "0"), Report("0", "2", "1"), Report("0", "2", "2"),
       Report("0", "3", "3") >>

\* C1: every list returned by get_nb_exclusion_patterns is in strictly
\* ascending string order, and two calls with the same interpreter presence
\* and the same READTHEDOCS presence return the identical list, whatever the
\* hash seed (the order in which the set is iterated) of the two processes.
C1_SortedAndDeterministic ==
    \A c \in calls :
        /\ StrictlyAscending(c.result)
        /\ \A d \in calls : SameInputs(c, d) => c.result = d.result

\* Two calls with the same inputs whose sets were iterated in different
\* orders, neither of them ascending.
C1_Witness ==
    \E c, d \in calls :
        /\ SameInputs(c, d)
        /\ c.seed # d.seed
        /\ c.iterated # d.iterated
        /\ ~StrictlyAscending(c.iterated)
        /\ ~StrictlyAscending(d.iterated)
        /\ c.result = d.result

\* C2: when julia is not on the search path the returned list contains
\* report/019*, whatever READTHEDOCS, EXECUTE_NB and FORCE_EXECUTE_NB are.
C2_AbsentInterpreterExcludesJulia ==
    \A c \in calls : ~c.julia => Contains(c.result, JuliaPattern)

\* A call without julia and with an empty environment, and one with all
\* three variables set.
C2_Witness ==
    /\ \E c \in calls :
          ~c.julia /\ c.env = {} /\ Contains(c.result, JuliaPattern)
    /\ \E c \in calls :
          ~c.julia /\ c.env = EnvNames /\ Contains(c.result, JuliaPattern)

\* C3: when READTHEDOCS is in the environment the returned list contains
\* report/019*, with julia on the search path or not.
C3_HostedBuildExcludesJulia ==
    \A c \in calls : HostedBuild(c.env) => Contains(c.result, JuliaPattern)

\* A hosted build with julia and one without.
C3_Witness ==
    /\ \E c \in calls :
          c.julia /\ HostedBuild(c.env) /\ Contains(c.result, JuliaPattern)
    /\ \E c \in calls :
          ~c.julia /\ HostedBuild(c.env) /\ Contains(c.result, JuliaPattern)

\* C9: report/019* is returned exactly when julia is absent or READTHEDOCS is
\* present; the 20 base patterns are always returned; EXECUTE_NB and
\* FORCE_EXECUTE_NB have no influence: the result is one of two lists, the 20
\* base patterns or those 21.
C9_ExactResult ==
    \A c \in calls :
        /\ Contains(c.result, JuliaPattern) <=> (~c.julia \/ HostedBuild(c.env))
        /\ \A i \in 1..Len(BaseExclusions) : Contains(c.result, BaseExclusions[i])
        /\ c.result = IF ~c.julia \/ HostedBuild(c.env)
                      THEN Expected21 ELSE Expected20

\* A call returning the 20 patterns and a call returning the 21, both with
\* an execution variable set.
C9_Witness ==
    \E c, d \in calls :
        /\ c.julia /\ c.env = {"EXECUTE_NB", "FORCE_EXECUTE_NB"}
        /\ Len(c.result) = 20 /\ ~Contains(c.result, JuliaPattern)
        /\ d.julia /\ d.env = EnvNames
        /\ Len(d.result) = 21

-----------------------------------------------------------------------------
(* Properties of install_ijulia and of the start-up, checked under Spec *)

Assigned(name) == name \in DOMAIN namespace

NothingAssigned == DOMAIN namespace = {} /\ \A n \in Names : writes[n] = 0

\* C4: without julia on the search path install_ijulia spawns no subprocess,
\* whatever EXECUTE_NB, FORCE_EXECUTE_NB and READTHEDOCS are.
C4_NoSpawnWithoutInterpreter ==
    ~juliaOnPath => spawned = <<>> /\ child = "none"

\* install_ijulia has returned, julia absent and all three variables set.
C4_Witness ==
    /\ ~juliaOnPath
    /\ environ = EnvNames
    /\ pc = "remap"
    /\ spawned = <<>>

\* C5: with julia present and EXECUTE_NB or FORCE_EXECUTE_NB set, the call of
\* install_ijulia spawns exactly one subprocess, julia InstallIJulia.jl.
C5_ExactlyOneSpawn ==
    (juliaOnPath /\ ("EXECUTE_NB" \in environ \/ "FORCE_EXECUTE_NB" \in environ))
        => /\ pc \notin {"list_reports", "install_ijulia"}
                => spawned = << <<"julia", "InstallIJulia.jl">> >>
           /\ Len(spawned) <= 1

\* The start-up is complete with only FORCE_EXECUTE_NB set and one spawn.
C5_Witness ==
    /\ juliaOnPath
    /\ environ = {"FORCE_EXECUTE_NB"}
    /\ pc = "done"
    /\ Len(spawned) = 1

\* C6: with julia present and neither EXECUTE_NB nor FORCE_EXECUTE_NB set,
\* install_ijulia spawns nothing and returns normally.
C6_NoSpawnWithoutRequest ==
    (juliaOnPath /\ "EXECUTE_NB" \notin environ
                 /\ "FORCE_EXECUTE_NB" \notin environ)
        => /\ spawned = <<>>
           /\ child = "none"
           /\ pc \notin {"check_call", "failed"}

\* install_ijulia has returned with julia present and no execution variable.
C6_Witness ==
    /\ juliaOnPath
    /\ environ = {"READTHEDOCS"}
    /\ pc = "remap"
    /\ spawned = <<>>

\* C7: once the subprocess has exited with a non-zero status the start-up is
\* in its failed state: one spawn only, no remapping registered, no
\* configuration variable assigned.
C7_NonZeroExitIsFatal ==
    (child = "exited" /\ exitStatus # 0)
        => /\ pc = "failed"
           /\ Len(spawned) = 1
           /\ remapping = None
           /\ NothingAssigned

\* The subprocess has exited with status 2.
C7_Witness == child = "exited" /\ exitStatus = 2 /\ pc = "failed"

\* C8: every configuration variable is assigned at most once and keeps its
\* value in every step; nb_execution_excludepatterns holds the list of
\* get_nb_exclusion_patterns; at the end thebe_config's two entries equal
\* those of html_theme_options.
C8_AssignedOnce ==
    /\ [][\A n \in DOMAIN namespace :
              n \in DOMAIN namespace' /\ namespace'[n] = namespace[n]]_vars
    /\ [](\A n \in Names : writes[n] <= 1)
    /\ [](Assigned("nb_execution_excludepatterns")
            => namespace["nb_execution_excludepatterns"]
                 = IF ~juliaOnPath \/ HostedBuild(environ)
                   THEN Expected21 ELSE Expected20)
    /\ [](pc = "done"
            => /\ DOMAIN namespace = Names
               /\ \A n \in Names : writes[n] = 1
               /\ namespace["thebe_config"].repository_url
                    = namespace["html_theme_options"].repository_url
               /\ namespace["thebe_config"].repository_branch
                    = namespace["html_theme_options"].repository_branch)

\* The start-up is complete and thebe_config holds the repository URL and
\* the commit of the checkout.
C8_Witness ==
    /\ pc = "done"
    /\ namespace["thebe_config"].repository_url
         = "https://github.com/ComPWA/compwa.github.io"
    /\ namespace["thebe_config"].repository_branch = commitSha
    /\ Len(namespace["nb_execution_excludepatterns"]) = 21

\* C10 (checked under FairSpec): the listing runs before install_ijulia;
\* while the subprocess runs the start-up is blocked in check_call with no
\* remapping registered and nothing assigned; the remapping precedes every
\* assignment; and once the subprocess has exited with status zero the
\* start-up completes with nb_execution_excludepatterns assigned.
C10_OrderedAndBlocking ==
    /\ [](pc # "list_reports" => reportsListed)
    /\ [](spawned # <<>> => reportsListed)
    /\ [](child = "running"
            => pc = "check_call" /\ remapping = None /\ NothingAssigned)
    /\ [](pc \in {"list_reports", "install_ijulia", "check_call"}
            => remapping = None /\ NothingAssigned)
    /\ [](~NothingAssigned => remapping # None)
    /\ (child = "exited" /\ exitStatus = 0)
          ~> (pc = "done" /\ Assigned("nb_execution_excludepatterns"))

\* The subprocess exited with status zero and the start-up is complete.
C10_Witness ==
    /\ child = "exited"
    /\ exitStatus = 0
    /\ pc = "done"
    /\ Assigned("nb_execution_excludepatterns")

=============================================================================
